---- MODULE Spec2Model ----
(***************************************************************************)
(* Model of the geoengine example converter (examples/converter/main.py):  *)
(* the target registry, the per-file conversion dispatcher, the bounded    *)
(* resize with its transform rescale, the display buffer, the profile and  *)
(* tags of the rasterio write paths, and the batch runner; and of run_tool *)
(* of the ArcGIS and QGIS plugins with the tool subprocess it drives.      *)
(*                                                                         *)
(* The image and raster libraries (Pillow, rasterio) are collaborators:    *)
(* only the calls the converter makes on them and the exception kinds      *)
(* they raise are modelled.  A path is a triple <<directory, stem,         *)
(* extension>>; a source file is a record with the state of its content.   *)
(***************************************************************************)
EXTENDS Integers, Sequences, FiniteSets, TLC

VARIABLES
    fs,         \* destination files that exist: path -> [by, ver]
    dirs,       \* directories that exist
    ncalls,     \* direct calls of convert_one / convert_one_direct made so far
    last,       \* the last per-file call: arguments, I/O trace, outcome
    pc,         \* position of the batch: idle, loop, done, raised, usage_error
    entry,      \* how the batch was entered: none, main, run_batch
    opts,       \* the Options of the running batch
    listing,    \* the files iter_images yields, in the order it yields them
    idx,        \* number of files the loop of run_batch has consumed
    handed,     \* calls of convert_one made by the batch, in order
    printed,    \* progress lines printed by the batch, in order
    any_fail,   \* the aggregate failure flag of run_batch
    status,     \* the value run_batch returned (-1: none yet)
    rz,         \* bounded-resize scenario: inputs and results
    nz,         \* display-buffer scenario: a dataset and what it was turned into
    gw,         \* rasterio-write scenario: a source, the arguments, what was written
    rt          \* a call of run_tool of the plugins and its tool subprocess

vars == <<fs, dirs, ncalls, last, pc, entry, opts, listing, idx, handed,
          printed, any_fail, status, rz, nz, gw, rt>>

\* the variables of the scenarios, which the converter's entry points leave alone
scenarioVars == <<rz, nz, gw, rt>>

-----------------------------------------------------------------------------
(* The data model.  Every record of the model is built by one of these     *)
(* constructors; each lists its fields in the order in which the names     *)
(* first occur in this module, which is the order TLC keeps them in.       *)

\* a status string, kept as its head and its detail:
\* "OK", "Skipped (exists)", "Failed (<detail>)"
Msg(head, detail) == [head |-> head, detail |-> detail]

\* a source file: its directory relative to the input directory, its stem,
\* its suffix and the state of its content
F(dir, stem, ext, content) ==
    [dir |-> dir, stem |-> stem, ext |-> ext, content |-> content]

\* the Options dataclass, lines 34-45
Options(input_dir, to, recursive, overwrite, keep_structure, quality, compress, max_size) ==
    [input_dir |-> input_dir, to |-> to, recursive |-> recursive,
     overwrite |-> overwrite, keep_structure |-> keep_structure,
     quality |-> quality, compress |-> compress, max_size |-> max_size]

\* what a call hands back: exc is the exception that left the call ("none"
\* when it returned), (ok, msg) the returned pair, io the file-system and
\* codec operations the call performed, in order
Outcome(exc, ok, msg, io) == [exc |-> exc, ok |-> ok, msg |-> msg, io |-> io]

\* a call of a per-file entry point: its arguments and what it handed back
Call(fn, src, dst, to, overwrite, env, r) ==
    [to |-> to, overwrite |-> overwrite,
     exc |-> r.exc, ok |-> r.ok, msg |-> r.msg, io |-> r.io,
     fn |-> fn, src |-> src, dst |-> dst, env |-> env]

\* what an inner conversion step hands back: the exception that left it
\* ("none" when it completed) and the operations it performed
Step(exc, io) == [exc |-> exc, io |-> io]

\* a progress line of run_batch, line 321
Line(src, dst, msg) == [msg |-> msg, src |-> src, dst |-> dst]

\* a destination file: the source it was written from and how many times it
\* was written
FileBy(by, ver) == [by |-> by, ver |-> ver]

\* a bounded-resize scenario: the arguments (max_size, the source's width,
\* height and transform) and what was written (dimensions, whether the
\* pixels were resampled, the transform)
Resized(max_size, fn, width, height, transform, new_width, new_height, resampled, new_transform) ==
    [max_size |-> max_size, fn |-> fn, width |-> width, height |-> height,
     transform |-> transform, new_width |-> new_width, new_height |-> new_height,
     resampled |-> resampled, new_transform |-> new_transform]

\* what rasterio_to_pil hands back: the exception that left it ("none" when
\* it returned), the mode of the image and the bands that became its channels
Display(exc, mode, channels) == [exc |-> exc, mode |-> mode, channels |-> channels]

\* a display-buffer scenario: the outcome of the conversion, the dataset read
\* (dtype, data: one sequence of samples per band), the 8-bit array built from
\* it (shown) and the image made of it (pil)
DisplayRun(ok, msg, env, dtype, data, shown, pil) ==
    [ok |-> ok, msg |-> msg, env |-> env, dtype |-> dtype, data |-> data,
     shown |-> shown, pil |-> pil]

\* a rasterio profile: the entries the converter sets or relies on.  An entry
\* that is not in the profile is "absent" (NoTransform for the transform).
Profile(driver, dtype, count, width, height, crs, transform, compress) ==
    [compress |-> compress, width |-> width, height |-> height,
     transform |-> transform, dtype |-> dtype, driver |-> driver,
     count |-> count, crs |-> crs]

\* a rasterio-write scenario: the saver called (fn), its arguments compress
\* and max_size, what went wrong (env, and for a tag fault the tag set at
\* which it struck), the profile of the source, the outcome of the
\* conversion, the profile handed to rasterio.open(out_path, "w") and the
\* number of tag sets copied to the destination
GeoRun(fn, compress, max_size, env, fault, source, ok, msg, io, written, copied) ==
    [compress |-> compress, max_size |-> max_size, ok |-> ok, msg |-> msg,
     io |-> io, fn |-> fn, env |-> env, fault |-> fault, source |-> source,
     written |-> written, copied |-> copied]

\* a call of run_tool and its tool subprocess.
\*   at        where run_tool is: "idle", "reading" (the stderr loop),
\*             "terminating" (wait(timeout=5) after terminate), "killing",
\*             "waiting" (process.wait() after the loop), "stdout", "done"
\*   child     the subprocess: "none", "running", "exited"
\*   plan_err  stderr lines the subprocess has still to write
\*   plan_out  stdout chunks the subprocess has still to write
\*   kind      what its stdout amounts to: "empty", "json", "garbage"
\*   code      the code it exits with when left alone
\*   stubborn  whether it ignores SIGTERM
\*   err, out  lines in the stderr pipe, chunks in the stdout pipe
\*   cancel    what is_cancelled() returns
\*   cancel_live  whether cancel became true while the subprocess was running
\*   term, kill   whether run_tool called terminate(), kill()
\*   rc        process.returncode (0 until the subprocess exited)
\*   result    what run_tool handed back: "none", "json" (the parsed stdout),
\*             "default", or the exception it raised
\*   closed    whether run_tool closed its ends of both pipes
RunTool(at, child, plan_err, plan_out, kind, code, stubborn, err, out, cancel, cancel_live, term, kill, rc, result, closed) ==
    [at |-> at, child |-> child, plan_err |-> plan_err, plan_out |-> plan_out,
     kind |-> kind, code |-> code, stubborn |-> stubborn, err |-> err, out |-> out,
     cancel |-> cancel, cancel_live |-> cancel_live, term |-> term, kill |-> kill,
     rc |-> rc, result |-> result, closed |-> closed]

MsgOK == Msg("OK", "")

MsgSkipped == Msg("Skipped", "exists")

NoMsg == Msg("", "")

\* msg.startswith("Skipped")
StartsWithSkipped(msg) == msg.head = "Skipped"

Returned(ok, msg, io) == Outcome("none", ok, msg, io)

Raised(kind, io) == Outcome(kind, FALSE, NoMsg, io)

PreExisting == FileBy(<<"", "", "">>, 0)

-----------------------------------------------------------------------------
(* Bounds of the model *)

\* direct calls of the per-file entry points in one behaviour
MaxCalls == 1
\* largest width and height of a raster in the resize scenarios
MaxDim == 7
\* largest max_size in the resize scenarios
MaxEdge == 6
\* largest magnitude of a pixel-size coefficient of a source transform
MaxPix == 2
\* largest band count of a dataset in the display-buffer scenarios
MaxBands == 5
\* pixels per band in the display-buffer scenarios
MaxPixels == 3
\* largest finite sample of a band in the display-buffer scenarios
MaxSample == 4
\* largest width and height of a raster in the rasterio-write scenarios
MaxSide == 3
\* stderr lines a tool subprocess writes, at most
MaxLines == 2
\* stdout chunks a tool subprocess writes, at most
MaxChunks == 3
\* lines, and chunks, an OS pipe holds before a write to it blocks
PipeCap == 2

-----------------------------------------------------------------------------
(* The registry *)

SUPPORTED_EXTS == {".jpg", ".jpeg", ".png", ".bmp", ".webp", ".tif", ".tiff"}

TIFF_EXTS == {".tif", ".tiff"}

TARGETS ==
    [k \in {"jpg", "jpeg", "png", "bmp", "webp", "tif", "tiff", "geotiff", "gtiff"} |->
        CASE k = "jpg"     -> <<".jpg", "JPEG">>
          [] k = "jpeg"    -> <<".jpeg", "JPEG">>
          [] k = "png"     -> <<".png", "PNG">>
          [] k = "bmp"     -> <<".bmp", "BMP">>
          [] k = "webp"    -> <<".webp", "WEBP">>
          [] k = "tif"     -> <<".tif", "TIFF">>
          [] k = "tiff"    -> <<".tiff", "TIFF">>
          [] k = "geotiff" -> <<".tif", "GTiff">>
          [] k = "gtiff"   -> <<".tif", "GTiff">>]

\* str.lower() on the strings of the model: target keys and file suffixes
LowerTable ==
    [s \in {"PNG", "GeoTIFF", "XYZ", ".PNG", ".TIF", ".JPG", ".Tiff"} |->
        CASE s = "PNG"     -> "png"
          [] s = "GeoTIFF" -> "geotiff"
          [] s = "XYZ"     -> "xyz"
          [] s = ".PNG"    -> ".png"
          [] s = ".TIF"    -> ".tif"
          [] s = ".JPG"    -> ".jpg"
          [] s = ".Tiff"   -> ".tiff"]

Lower(s) == IF s \in DOMAIN LowerTable THEN LowerTable[s] ELSE s

-----------------------------------------------------------------------------
(* The collaborators.  content is the state of a source file: "good",      *)
(* "corrupt" (the header cannot be decoded) or "missing".  env is what goes *)
(* wrong during a call: nothing ("ok"), opening the destination for writing *)
(* ("write_error"), decoding the pixel data of a source whose header was   *)
(* read ("read_error"), or copying the tags ("tag_error").                 *)

Contents == {"good", "corrupt", "missing"}

Envs == {"ok", "write_error"}

Faults == Envs \cup {"read_error", "tag_error"}

\* PIL.Image.open(src_path): the exception it raises, "none" when it opens
ImageOpen(src_path) ==
    CASE src_path.content = "missing" -> "FileNotFoundError"
      [] src_path.content = "corrupt" -> "UnidentifiedImageError"
      [] OTHER -> "none"

\* rasterio.open(src_path): the exception it raises, "none" when it opens
RasterioOpen(src_path) ==
    IF src_path.content \in {"missing", "corrupt"} THEN "RasterioIOError" ELSE "none"

-----------------------------------------------------------------------------
(* The savers *)

\* an inner step after the operations ops
Pre(ops, s) == Step(s.exc, ops \o s.io)

\* a slip: the handle is closed by a call after the body, which an exception
\* in the body skips
With_NoCloseOnError(opened, closed, s) ==
    IF s.exc = "none"
    THEN Step(s.exc, <<opened>> \o s.io \o <<closed>>)
    ELSE Step(s.exc, <<opened>> \o s.io)

\* "with <handle>: body": the handle is closed when the body is left,
\* whether it completed or raised (lines 148, 175, 211, 241, 253, 260)
With(opened, closed, s) == Step(s.exc, <<opened>> \o s.io \o <<closed>>)

\* a slip: the tag copy is not guarded, its exception leaves the block
TagCopy_Unguarded(env) == IF env = "tag_error" THEN "RasterioIOError" ELSE "none"

\* lines 178-183: the tag copy; "except Exception: pass" swallows what it
\* raises, so no exception leaves it
TagCopy(env) == "none"

\* save_pil: ensure_parent, then img.save, which decodes the pixel data of
\* an image that is still lazy and then writes the file
save_pil(to_key, quality, env) ==
    CASE env = "read_error"  -> Step("OSError", <<"mkdir", "im.load">>)
      [] env = "write_error" -> Step("OSError", <<"mkdir">>)
      [] OTHER               -> Step("none", <<"mkdir", "Image.save">>)

\* save_geotiff_from_raster: open the source dataset, read it, ensure_parent,
\* open the destination for writing, write, copy the tags
save_geotiff_from_raster(src_path, driver, compress, max_size, env) ==
    IF RasterioOpen(src_path) # "none"
    THEN Step(RasterioOpen(src_path), <<"rasterio.open">>)
    ELSE Pre(<<"rasterio.open">>,
             With("src.opened", "src.closed",
                  CASE env = "read_error"  -> Step("RasterioIOError", <<"src.read">>)
                    [] env = "write_error" -> Step("RasterioIOError", <<"src.read", "mkdir">>)
                    [] OTHER ->
                        Pre(<<"src.read", "mkdir">>,
                            With("dst.opened", "dst.closed",
                                 Step(TagCopy(env), <<"rasterio.write", "update_tags">>)))))

\* save_geotiff_from_pil: resize, band-major array (which decodes the pixel
\* data), ensure_parent, open the destination for writing, write
save_geotiff_from_pil(driver, compress, max_size, env) ==
    CASE env = "read_error"  -> Step("OSError", <<"im.load">>)
      [] env = "write_error" -> Step("RasterioIOError", <<"im.load", "mkdir">>)
      [] OTHER ->
            Pre(<<"im.load", "mkdir">>,
                With("dst.opened", "dst.closed", Step("none", <<"rasterio.write">>)))

-----------------------------------------------------------------------------
(* The dispatcher *)

\* a slip: only the driver name is looked at, not the output extension
WritesViaRasterio_DriverOnly(out_ext, out_fmt) == out_fmt = "GTiff"

\* line 229: the target is written through rasterio
WritesViaRasterio(out_ext, out_fmt) ==
    out_ext \in {".tif", ".tiff"} \/ out_fmt = "GTiff"

\* line 232 and line 252: the source is read through rasterio
ReadsViaRasterio(src_ext) == src_ext \in TIFF_EXTS

\* a slip: only UnidentifiedImageError is caught, the rest leaves the call
Catch_Narrow(r) ==
    CASE r.exc = "none" -> Returned(TRUE, MsgOK, r.io)
      [] r.exc = "UnidentifiedImageError" ->
            Returned(FALSE, Msg("Failed", "unrecognized image"), r.io)
      [] OTHER -> Raised(r.exc, r.io)

\* the except clauses of _convert_image: a step's exception becomes an outcome
Catch(r) ==
    CASE r.exc = "none" -> Returned(TRUE, MsgOK, r.io)
      [] r.exc = "UnidentifiedImageError" ->
            Returned(FALSE, Msg("Failed", "unrecognized image"), r.io)
      [] OTHER -> Returned(FALSE, Msg("Failed", r.exc), r.io)

\* lines 252-257: the branch of _convert_image that reads an open dataset
\* through rasterio, where pil is what rasterio_to_pil hands back, and writes
\* the image with save_pil after the dataset is closed
GeoToGeneric(pil, to_key, quality, env) ==
    LET read == With("src.opened", "src.closed",
                     Step(IF env = "read_error" THEN "RasterioIOError" ELSE pil.exc,
                          <<"src.read">>))
    IN  IF read.exc # "none"
        THEN Pre(<<"rasterio.open">>, read)
        ELSE Pre(<<"rasterio.open">> \o read.io, save_pil(to_key, quality, env))

\* an image rasterio_to_pil returned
AnImage == Display("none", "RGB", << >>)

\* the body of the try block of _convert_image
ConvertBody(src_path, to_key, out_ext, out_fmt, src_ext, compress, max_size, quality, env) ==
    IF WritesViaRasterio(out_ext, out_fmt)
    THEN IF ReadsViaRasterio(src_ext)
         THEN save_geotiff_from_raster(src_path, "GTiff", compress, max_size, env)
         ELSE IF ImageOpen(src_path) # "none"
              THEN Step(ImageOpen(src_path), <<"Image.open">>)
              ELSE Pre(<<"Image.open">>,
                       With("im.opened", "im.closed",
                            save_geotiff_from_pil("GTiff", compress, max_size, env)))
    ELSE IF ReadsViaRasterio(src_ext)
         THEN IF RasterioOpen(src_path) # "none"
              THEN Step(RasterioOpen(src_path), <<"rasterio.open">>)
              ELSE GeoToGeneric(AnImage, to_key, quality, env)
         ELSE IF ImageOpen(src_path) # "none"
              THEN Step(ImageOpen(src_path), <<"Image.open">>)
              ELSE Pre(<<"Image.open">>,
                       With("im.opened", "im.closed", save_pil(to_key, quality, env)))

\* _convert_image: the registry lookup of line 224 is outside the try block
_convert_image(src_path, dst_path, to_key, compress, max_size, quality, env) ==
    IF to_key \notin DOMAIN TARGETS
    THEN Raised("KeyError", <<>>)
    ELSE Catch(ConvertBody(src_path, to_key, TARGETS[to_key][1], TARGETS[to_key][2],
                           Lower(src_path.ext), compress, max_size, quality, env))

\* prepend the operations a caller performed before the call it returns
After(pre, r) == Outcome(r.exc, r.ok, r.msg, pre \o r.io)

\* a slip: the batch converts without asking whether the destination exists
convert_one_NoSkip(src, dst, o, FS, env) ==
    After(<<"dst.exists">>,
          _convert_image(src, dst, Lower(o.to), o.compress, o.max_size, o.quality, env))

\* convert_one(src, dst, opts) on the file system FS
convert_one(src, dst, o, FS, env) ==
    IF dst \in DOMAIN FS /\ ~o.overwrite
    THEN Returned(FALSE, MsgSkipped, <<"dst.exists">>)
    ELSE After(<<"dst.exists">>,
               _convert_image(src, dst, Lower(o.to), o.compress, o.max_size, o.quality, env))

\* a slip: the existence check comes too late to keep the destination
convert_one_direct_NoSkip(src, dst, to, overwrite, compress, max_size, quality, FS, env) ==
    After(<<"dst.exists">>,
          _convert_image(src, dst, Lower(to), compress, max_size, quality, env))

\* convert_one_direct(src, dst, to, overwrite, compress, max_size, quality)
convert_one_direct(src, dst, to, overwrite, compress, max_size, quality, FS, env) ==
    IF dst \in DOMAIN FS /\ ~overwrite
    THEN Returned(FALSE, MsgSkipped, <<"dst.exists">>)
    ELSE After(<<"dst.exists">>,
               _convert_image(src, dst, Lower(to), compress, max_size, quality, env))

-----------------------------------------------------------------------------
(* Effects of a call on the file system *)

Has(io, op) == \E i \in 1..Len(io) : io[i] = op

\* path.parent.mkdir(parents=True, exist_ok=True)
MkdirP(d) == IF d = "out/sub" THEN {"out", "out/sub"} ELSE {d}

SrcPath(src) == <<src.dir, src.stem, src.ext>>

\* the destination files after a call that performed io
FsAfter(FS, io, src, dst) ==
    IF Has(io, "rasterio.write") \/ Has(io, "Image.save")
    THEN [p \in DOMAIN FS \cup {dst} |->
            IF p = dst
            THEN FileBy(SrcPath(src), IF dst \in DOMAIN FS THEN FS[dst].ver + 1 ELSE 1)
            ELSE FS[p]]
    ELSE FS

\* the directories after a call that performed io
DirsAfter(D, io, dst) == IF Has(io, "mkdir") THEN D \cup MkdirP(dst[1]) ELSE D

-----------------------------------------------------------------------------
(* The bounded resize, and the rescale of the transform that goes with it. *)
(* Dimensions are integers.  A coefficient of a transform is a rational    *)
(* <<numerator, denominator>> with a positive denominator; a transform is  *)
(* rasterio's Affine(a, b, c, d, e, f), the matrix                         *)
(*      | a b c |                                                          *)
(*      | d e f |                                                          *)
(*      | 0 0 1 |                                                          *)

Rat(n) == <<n, 1>>

RMul(x, y) == <<x[1] * y[1], x[2] * y[2]>>

RAdd(x, y) == <<x[1] * y[2] + y[1] * x[2], x[2] * y[2]>>

REq(x, y) == x[1] * y[2] = y[1] * x[2]

\* the values int(round(n / d)) takes for integers n >= 0, d > 0.  Python
\* rounds half to even, but the product w * scale is a float: where n / d
\* lies exactly half way between two integers the float may fall on either
\* side (11 * (15 / 22.0) = 7.499999999999999), so both neighbours are kept.
RoundChoices(n, d) ==
    LET q == n \div d
        r == n % d
    IN  IF 2 * r < d THEN {q} ELSE IF 2 * r > d THEN {q + 1} ELSE {q, q + 1}

\* max(1, x)
AtLeast1(x) == IF x < 1 THEN 1 ELSE x

\* max(w, h)
Longest(w, h) == IF w >= h THEN w ELSE h

\* a slip: the scale is taken from the shorter edge
resize_pil_ShortEdge(w, h, max_size) ==
    LET shortest == IF w <= h THEN w ELSE h
    IN  IF max_size = 0 \/ shortest <= max_size
        THEN {<<w, h, FALSE>>}
        ELSE {<<AtLeast1(nw), AtLeast1(nh), TRUE>> :
                 nw \in RoundChoices(w * max_size, shortest),
                 nh \in RoundChoices(h * max_size, shortest)}

\* resize_pil: the <<new width, new height, resampled>> it can produce
resize_pil(w, h, max_size) ==
    IF max_size = 0 \/ Longest(w, h) <= max_size
    THEN {<<w, h, FALSE>>}
    ELSE {<<AtLeast1(nw), AtLeast1(nh), TRUE>> :
             nw \in RoundChoices(w * max_size, Longest(w, h)),
             nh \in RoundChoices(h * max_size, Longest(w, h))}

\* Affine.scale(sx, sy)
AffineScale(sx, sy) == <<sx, Rat(0), Rat(0), Rat(0), sy, Rat(0)>>

\* Affine.__mul__: the matrix product m * n
AffineMul(m, n) ==
    << RAdd(RMul(m[1], n[1]), RMul(m[2], n[4])),
       RAdd(RMul(m[1], n[2]), RMul(m[2], n[5])),
       RAdd(RAdd(RMul(m[1], n[3]), RMul(m[2], n[6])), m[3]),
       RAdd(RMul(m[4], n[1]), RMul(m[5], n[4])),
       RAdd(RMul(m[4], n[2]), RMul(m[5], n[5])),
       RAdd(RAdd(RMul(m[4], n[3]), RMul(m[5], n[6])), m[6]) >>

\* a slip: the two scale factors are passed in the order (height, width)
RescaledTransform_Swapped(t, w, h, new_w, new_h) ==
    AffineMul(t, AffineScale(<<h, new_h>>, <<w, new_w>>))

\* a slip: one factor, longest edge over new longest edge, for both axes
RescaledTransform_Uniform(t, w, h, new_w, new_h) ==
    AffineMul(t, AffineScale(<<Longest(w, h), Longest(new_w, new_h)>>,
                             <<Longest(w, h), Longest(new_w, new_h)>>))

\* a slip: the product is taken in the order scale * transform
RescaledTransform_ScaleFirst(t, w, h, new_w, new_h) ==
    AffineMul(AffineScale(<<w, new_w>>, <<h, new_h>>), t)

\* line 167: src.transform * src.transform.scale(w / new_w, h / new_h)
RescaledTransform(t, w, h, new_w, new_h) ==
    AffineMul(t, AffineScale(<<w, new_w>>, <<h, new_h>>))

\* save_geotiff_from_raster, lines 156-172: the <<new width, new height,
\* resampled, transform of the written profile>> it can produce
GeoResize(w, h, max_size, t) ==
    IF max_size = 0 \/ Longest(w, h) <= max_size
    THEN {<<w, h, FALSE, t>>}
    ELSE {<<AtLeast1(nw), AtLeast1(nh), TRUE,
            RescaledTransform(t, w, h, AtLeast1(nw), AtLeast1(nh))>> :
             nw \in RoundChoices(w * max_size, Longest(w, h)),
             nh \in RoundChoices(h * max_size, Longest(w, h))}

\* source transforms: pixel sizes a > 0 and e < 0 (north up), rotation terms
\* b and d, and an origin (c, f)
Origins == {<<0, 0>>, <<3, -5>>}

Transforms ==
    {<<Rat(a), Rat(b), Rat(o[1]), Rat(d), Rat(e), Rat(o[2])>> :
        a \in 1..MaxPix, b \in {0, 1}, d \in {0, 1}, e \in (-MaxPix)..(-1), o \in Origins}

NoTransform == <<Rat(0), Rat(0), Rat(0), Rat(0), Rat(0), Rat(0)>>

NoRz == Resized(0, "none", 0, 0, NoTransform, 0, 0, FALSE, NoTransform)

-----------------------------------------------------------------------------
(* The display buffer: rasterio_to_pil, lines 79-105.  A sample is a pair  *)
(* <<kind, value>>: a finite number, NaN, +inf or -inf; a band is the      *)
(* sequence of its samples; a dataset is its dtype and its bands.  The     *)
(* finite samples are small integers, on which the float32 arithmetic of   *)
(* lines 91-98 is exact.                                                   *)

Num(v) == <<"num", v>>

NaN == <<"nan", 0>>

PosInf == <<"inf", 0>>

NegInf == <<"-inf", 0>>

\* np.isfinite
IsFinite(x) == x[1] = "num"

Values(band) == {band[i] : i \in DOMAIN band}

FiniteValues(band) == {x[2] : x \in {y \in Values(band) : IsFinite(y)}}

SetMin(S) == CHOOSE m \in S : \A x \in S : m <= x

SetMax(S) == CHOOSE m \in S : \A x \in S : m >= x

\* np.nanmin(band): the smallest sample that is not NaN, -inf included; NaN
\* when every sample is NaN
nanmin(band) ==
    LET vs == Values(band) \ {NaN}
    IN  IF vs = {} THEN NaN
        ELSE IF NegInf \in vs THEN NegInf
        ELSE IF FiniteValues(band) = {} THEN PosInf
        ELSE Num(SetMin(FiniteValues(band)))

\* np.nanmax(band): the largest sample that is not NaN, +inf included
nanmax(band) ==
    LET vs == Values(band) \ {NaN}
    IN  IF vs = {} THEN NaN
        ELSE IF PosInf \in vs THEN PosInf
        ELSE IF FiniteValues(band) = {} THEN NegInf
        ELSE Num(SetMax(FiniteValues(band)))

\* np.clip(x, 0, 255) on an integer
Clip255(x) == IF x < 0 THEN 0 ELSE IF x > 255 THEN 255 ELSE x

\* line 98 on one sample: np.clip((x - mn) * 255.0 / (mx - mn), 0, 255) cast
\* with astype(np.uint8), which drops the fraction.  The cast of NaN to an
\* integer is undefined: nan_cast is the byte the build produces for it.
Stretch(x, mn, mx, nan_cast) ==
    CASE x = NaN    -> nan_cast
      [] x = PosInf -> 255
      [] x = NegInf -> 0
      [] OTHER      -> Clip255(((x[2] - mn) * 255) \div (mx - mn))

\* lines 90-98 on one band
StretchBand(band, nan_cast) ==
    LET mn == nanmin(band)
        mx == nanmax(band)
    IN  IF ~IsFinite(mn) \/ ~IsFinite(mx) \/ mx[2] <= mn[2]
        THEN [i \in DOMAIN band |-> 0]
        ELSE [i \in DOMAIN band |-> Stretch(band[i], mn[2], mx[2], nan_cast)]

\* lines 87-99: the uint8 array, data itself when it is uint8 already
ToUint8(data, dtype, nan_cast) ==
    IF dtype # "uint8"
    THEN [b \in DOMAIN data |-> StretchBand(data[b], nan_cast)]
    ELSE [b \in DOMAIN data |-> [i \in DOMAIN data[b] |-> data[b][i][2]]]

\* the first n bands of arr, fewer when arr has fewer: arr[:n]
FirstBands(arr, n) == SubSeq(arr, 1, IF Len(arr) < n THEN Len(arr) ELSE n)

\* lines 100-105: Image.fromarray on the bands selected by the band count.
\* With two bands lines 104-105 hand a two-channel array to
\* Image.fromarray(rgb, mode="RGB"), which raises ValueError.
rasterio_to_pil(data, dtype, nan_cast) ==
    LET arr == ToUint8(data, dtype, nan_cast)
        count == Len(data)
    IN  IF count = 1 THEN Display("none", "L", FirstBands(arr, 1))
        ELSE IF count >= 4 THEN Display("none", "RGBA", FirstBands(arr, 4))
        ELSE IF Len(FirstBands(arr, 3)) = 3 THEN Display("none", "RGB", FirstBands(arr, 3))
        ELSE Display("ValueError", "", << >>)

\* the bytes a build can produce for NaN cast to uint8
NaNCasts == {0, 255}

Dtypes == {"uint8", "uint16", "float32"}

\* the samples a dataset of a dtype can hold
Samples(dtype) ==
    {Num(v) : v \in 0..MaxSample}
        \cup (IF dtype = "float32" THEN {NaN, PosInf, NegInf} ELSE {})

Bands(dtype) == [1..MaxPixels -> Samples(dtype)]

\* bands that follow the first one: a constant band and a ramp
FlatBand == [i \in 1..MaxPixels |-> Num(1)]

RampBand == [i \in 1..MaxPixels |-> Num(i - 1)]

\* the datasets: any first band, followed by copies of a constant band or
\* of a ramp
Datasets(dtype) ==
    {[b \in 1..count |-> IF b = 1 THEN first ELSE rest] :
        count \in 1..MaxBands, first \in Bands(dtype), rest \in {FlatBand, RampBand}}

NoDisplay == Display("none", "", << >>)

NoNz == DisplayRun(FALSE, NoMsg, "ok", "none", << >>, << >>, NoDisplay)

-----------------------------------------------------------------------------
(* The rasterio write paths in detail: the profile handed to               *)
(* rasterio.open(out_path, "w", **profile) and the copy of the tags        *)

\* a slip: the profile is built afresh, as save_geotiff_from_pil builds it
WrittenProfile_Afresh(profile, driver, compress, out) ==
    Profile(driver, "uint8", profile.count, out[1], out[2], "absent", NoTransform,
            compress)

\* save_geotiff_from_raster, lines 149-168: a copy of the source's profile
\* with the driver, the compression and, after a resize (out is what
\* GeoResize produced), the new dimensions and transform
WrittenProfile(profile, driver, compress, out) ==
    LET p1 == [profile EXCEPT !.driver = driver]
        p2 == IF driver = "GTiff" THEN [p1 EXCEPT !.compress = compress] ELSE p1
    IN  IF out[3]
        THEN [p2 EXCEPT !.height = out[2], !.width = out[1], !.transform = out[4]]
        ELSE p2

\* save_geotiff_from_pil, lines 200-208: the profile of an array of count
\* bands of height x width bytes
PilProfile(driver, compress, count, height, width) ==
    LET p == Profile("GTiff", "uint8", count, width, height, "absent", NoTransform,
                     "absent")
    IN  IF compress # "" /\ p.driver = "GTiff" THEN [p EXCEPT !.compress = compress] ELSE p

\* lines 179-181: the tag sets copied to the destination, the dataset's first
\* and then one per band; a failure at set number fault (0: none) ends the
\* copy with the sets before it copied
TagSetsCopied(count, fault) == IF fault = 0 THEN count + 1 ELSE fault - 1

\* len(img.getbands()) for the modes pil_to_rasterio_arr keeps
BandsOfMode(mode) ==
    CASE mode = "L" -> 1
      [] mode = "RGB" -> 3
      [] mode = "RGBA" -> 4

\* the transforms of the sources of the rasterio-write scenarios: unit pixel
\* sizes, an origin away from (0, 0), without and with rotation terms
GeoTransforms ==
    {<<Rat(1), Rat(b), Rat(3), Rat(b), Rat(-1), Rat(-5)>> : b \in {0, 1}}

\* the profiles of the sources of the rasterio-write scenarios
SourceProfiles ==
    {Profile("GTiff", dtype, count, width, height, crs, t, compress) :
        dtype \in {"uint8", "float32"}, count \in {1, MaxBands},
        width \in 1..MaxSide, height \in 1..MaxSide,
        crs \in {"absent", "EPSG:4326"}, t \in GeoTransforms,
        compress \in {"absent", "lzw"}}

\* the values of the compress argument: parse_args turns "none" into ""
Compressions == {"", "deflate"}

NoProfile == Profile("none", "none", 0, 0, 0, "absent", NoTransform, "absent")

NoGw == GeoRun("none", "", 0, "ok", 0, NoProfile, FALSE, NoMsg, << >>, NoProfile, 0)

\* run_tool before it is called
NoRun ==
    RunTool("idle", "none", 0, 0, "empty", 0, FALSE, 0, 0, FALSE, FALSE, FALSE, FALSE,
            0, "none", FALSE)

\* a readable georeferenced source, a readable generic source, a destination
AGeoSource == F("", "a", ".tif", "good")

AnImageSource == F("", "a", ".png", "good")

AGeoDst == <<"out", "a", ".tif">>

-----------------------------------------------------------------------------
(* The inputs of the model *)

NoSrc == F("", "", "", "good")

NoDst == <<"", "", "">>

\* target keys a caller may pass: the registry's, spelled in upper case, unknown
Keys == DOMAIN TARGETS \cup {"PNG", "xyz", "XYZ"}

\* input directory trees, each in the order the file system lists it
Tree0 == << F("", "notes", ".txt", "good") >>

Tree1 == << F("", "a", ".png", "good"),
            F("", "notes", ".txt", "good"),
            F("", "b", ".JPG", "corrupt") >>

Tree2 == << F("", "a", ".TIF", "good"),
            F("", "c", ".tiff", "corrupt"),
            F("sub", "a", ".png", "good") >>

\* two files of one directory that differ in their suffix only
Tree3 == << F("", "a", ".png", "good"),
            F("", "a", ".jpg", "good") >>

Trees == {<< >>, Tree0, Tree1, Tree2, Tree3}

\* sources and destinations of the direct calls
DirectSources ==
    {F("", "a", ".png", c) : c \in Contents} \cup {F("", "a", ".TIF", c) : c \in Contents}

DirectDsts == {<<"out", "a", ".jpg">>, <<"out/sub", "a", ".tif">>}

\* destinations that may exist before the program runs
PreFiles == {<<"out", "a", ".jpg">>, <<"out", "a", ".tif">>}

\* defaults of --quality and --max-size (None and 0 are both "no resize")
DefaultQuality == 92

NoMaxSize == 0

NoOpts == Options(<< >>, "", FALSE, FALSE, FALSE, DefaultQuality, "", NoMaxSize)

NoCall == Call("none", NoSrc, NoDst, "", FALSE, "ok", Raised("none", << >>))


-----------------------------------------------------------------------------
(* The batch runner *)

\* iter_images(root, recursive): the supported files of the listing, in order
iter_images(root, recursive) ==
    SelectSeq(root, LAMBDA p : (recursive \/ p.dir = "") /\ Lower(p.ext) \in SUPPORTED_EXTS)

\* lines 314-318: the destination of src
DstOf(src, out_suffix, keep_structure) ==
    IF keep_structure /\ src.dir # ""
    THEN <<"out/sub", src.stem, out_suffix>>
    ELSE <<"out", src.stem, out_suffix>>

\* a slip: the flag follows the last file instead of accumulating
FlagAfter_LastOnly(flag, ok, msg) == ~ok /\ ~StartsWithSkipped(msg)

\* lines 322-323: the failure flag after an outcome
FlagAfter(flag, ok, msg) == flag \/ (~ok /\ ~StartsWithSkipped(msg))

\* line 325
ExitStatus(flag) == IF flag THEN 1 ELSE 0

-----------------------------------------------------------------------------
(* Initial states: any of the pre-existing destinations *)

Init ==
    /\ \E S \in SUBSET PreFiles : fs = [p \in S |-> PreExisting]
    /\ dirs \in {{}, {"out"}}
    /\ (DOMAIN fs # {}) => "out" \in dirs
    /\ ncalls = 0
    /\ last = NoCall
    /\ pc = "idle"
    /\ entry = "none"
    /\ opts = NoOpts
    /\ listing = << >>
    /\ idx = 0
    /\ handed = << >>
    /\ printed = << >>
    /\ any_fail = FALSE
    /\ status = -1
    /\ rz = NoRz
    /\ nz = NoNz
    /\ gw = NoGw
    /\ rt = NoRun

batchVars == <<pc, entry, opts, listing, idx, handed, printed, any_fail, status>>

-----------------------------------------------------------------------------
(* Direct calls of the per-file entry points *)

CallConvertOneDirect ==
    /\ pc = "idle"
    /\ ncalls < MaxCalls
    /\ \E src \in DirectSources, dst \in DirectDsts, to \in Keys,
          overwrite \in BOOLEAN, env \in Envs :
        LET r == convert_one_direct(src, dst, to, overwrite, "deflate", NoMaxSize,
                                    DefaultQuality, fs, env)
        IN  /\ last' = Call("convert_one_direct", src, dst, to, overwrite, env, r)
            /\ fs' = FsAfter(fs, r.io, src, dst)
            /\ dirs' = DirsAfter(dirs, r.io, dst)
    /\ ncalls' = ncalls + 1
    /\ UNCHANGED <<batchVars, scenarioVars>>

CallConvertOne ==
    /\ pc = "idle"
    /\ ncalls < MaxCalls
    /\ \E src \in DirectSources, dst \in DirectDsts, to \in Keys,
          overwrite \in BOOLEAN, env \in Envs :
        LET o == Options(<< >>, to, FALSE, overwrite, TRUE, DefaultQuality, "deflate", NoMaxSize)
            r == convert_one(src, dst, o, fs, env)
        IN  /\ last' = Call("convert_one", src, dst, to, overwrite, env, r)
            /\ fs' = FsAfter(fs, r.io, src, dst)
            /\ dirs' = DirsAfter(dirs, r.io, dst)
    /\ ncalls' = ncalls + 1
    /\ UNCHANGED <<batchVars, scenarioVars>>

-----------------------------------------------------------------------------
(* The batch: main() = parse_args() then run_batch(); run_batch() called    *)
(* with an Options object built by the caller                              *)

\* run_batch, line 310-313: create the output directory, clear the flag,
\* start the enumeration
RunBatchBegin(o, how) ==
    /\ pc = "idle"
    /\ ncalls = 0
    /\ pc' = "loop"
    /\ entry' = how
    /\ opts' = o
    /\ dirs' = dirs \cup MkdirP("out")
    /\ any_fail' = FALSE
    /\ listing' = iter_images(o.input_dir, o.recursive)
    /\ idx' = 0
    /\ UNCHANGED <<fs, ncalls, last, handed, printed, status, scenarioVars>>

\* parse_args, lines 348-364, then run_batch
Main ==
    \E tree \in Trees, to \in Keys, recursive \in BOOLEAN, overwrite \in BOOLEAN,
       no_keep_structure \in BOOLEAN :
        IF Lower(to) \notin DOMAIN TARGETS
        THEN /\ pc = "idle"
             /\ ncalls = 0
             /\ pc' = "usage_error"
             /\ entry' = "main"
             /\ UNCHANGED <<fs, dirs, ncalls, last, opts, listing, idx, handed,
                            printed, any_fail, status, scenarioVars>>
        ELSE RunBatchBegin(Options(tree, Lower(to), recursive, overwrite,
                                   ~no_keep_structure, DefaultQuality, "deflate",
                                   NoMaxSize), "main")

\* run_batch(opts) called directly
RunBatch ==
    \E tree \in Trees, to \in Keys, recursive \in BOOLEAN, overwrite \in BOOLEAN,
       keep_structure \in BOOLEAN :
        RunBatchBegin(Options(tree, to, recursive, overwrite, keep_structure,
                              DefaultQuality, "deflate", NoMaxSize), "run_batch")

\* one iteration of the loop of run_batch, lines 313-323
RunBatchIter ==
    /\ pc = "loop"
    /\ idx < Len(listing)
    /\ LET src == listing[idx + 1]
           key == Lower(opts.to)
       IN  IF key \notin DOMAIN TARGETS
           THEN \* line 315 raises KeyError
                /\ pc' = "raised"
                /\ UNCHANGED <<fs, dirs, last, idx, handed, printed, any_fail>>
           ELSE \E env \in Faults :
                LET dst == DstOf(src, TARGETS[key][1], opts.keep_structure)
                    r == convert_one(src, dst, opts, fs, env)
                IN  /\ last' = Call("convert_one", src, dst, opts.to, opts.overwrite, env, r)
                    /\ fs' = FsAfter(fs, r.io, src, dst)
                    /\ dirs' = DirsAfter(dirs, r.io, dst)
                    /\ handed' = Append(handed, last')
                    /\ IF r.exc # "none"
                       THEN /\ pc' = "raised"
                            /\ UNCHANGED <<idx, printed, any_fail>>
                       ELSE /\ pc' = "loop"
                            /\ printed' = Append(printed, Line(src, dst, r.msg))
                            /\ any_fail' = FlagAfter(any_fail, r.ok, r.msg)
                            /\ idx' = idx + 1
    /\ UNCHANGED <<ncalls, entry, opts, listing, status, scenarioVars>>

\* line 325
RunBatchReturn ==
    /\ pc = "loop"
    /\ idx = Len(listing)
    /\ pc' = "done"
    /\ status' = ExitStatus(any_fail)
    /\ UNCHANGED <<fs, dirs, ncalls, last, entry, opts, listing, idx, handed,
                   printed, any_fail, scenarioVars>>

Next ==
    \/ CallConvertOneDirect
    \/ CallConvertOne
    \/ Main
    \/ RunBatch
    \/ RunBatchIter
    \/ RunBatchReturn

Spec == Init /\ [][Next]_vars

-----------------------------------------------------------------------------
(* Properties of the dispatcher and of the batch runner *)

\* the keys the registry is specified to hold
RegistryKeys == {"jpg", "jpeg", "png", "bmp", "webp", "tif", "tiff", "geotiff", "gtiff"}

\* operations that touch the source, a directory or the destination's content
TouchingOps ==
    {"mkdir", "Image.open", "rasterio.open", "src.read", "rasterio.write", "Image.save"}

\* a step in which a per-file entry point was called
CallMade == ncalls' # ncalls \/ Len(handed') # Len(handed)

\* C1: a call of convert_one or convert_one_direct whose destination exists
\* while overwrite is false returns (False, "Skipped (exists)"), and during
\* the call no destination file changes, no directory is created and the
\* source is neither opened nor read, whatever the source and the target key.
C1_SkipTouchesNothing ==
    [][(CallMade /\ last'.dst \in DOMAIN fs /\ ~last'.overwrite) =>
         /\ last'.exc = "none"
         /\ last'.ok = FALSE
         /\ last'.msg = MsgSkipped
         /\ fs' = fs
         /\ dirs' = dirs
         /\ \A i \in 1..Len(last'.io) : last'.io[i] \notin TouchingOps]_vars

\* C1 happens: convert_one_direct skipped a .TIF source asked for an
\* unregistered key, and convert_one can skip too
C1_Witness ==
    /\ last.fn = "convert_one_direct"
    /\ last.msg = MsgSkipped
    /\ ~last.overwrite
    /\ last.dst \in DOMAIN fs
    /\ fs[last.dst] = PreExisting
    /\ Lower(last.src.ext) \in {".tif", ".tiff"}
    /\ Lower(last.to) \notin RegistryKeys

\* C2: no call of the per-file conversion lets an exception reach its caller;
\* every failure comes back as an outcome.
C2_NeverRaises == last.fn # "none" => last.exc = "none"

\* C3: a request whose lower-cased key is not in the registry is rejected
\* before any file-system operation: nothing was checked, created or read,
\* and it is answered neither "Skipped (exists)" nor "OK".
C3_UnknownKeyRejectedBeforeIO ==
    (last.fn # "none" /\ Lower(last.to) \notin RegistryKeys) =>
        /\ last.io = << >>
        /\ last.msg # MsgSkipped
        /\ last.msg # MsgOK
        /\ ~last.ok

\* a handed file that ended with a failure that is not a skip
FailedNonSkip(c) == c.exc = "none" /\ ~c.ok /\ c.msg # MsgSkipped

SomeFailure == \E i \in 1..Len(handed) : FailedNonSkip(handed[i])

\* C4: throughout the loop the failure flag is set exactly when some file so
\* far ended with a non-skip failure (a skip never sets it, a later success
\* never clears it), and run_batch returns 1 exactly in that case, 0 otherwise.
C4_ExitStatus ==
    /\ pc \in {"loop", "done"} => (any_fail <=> SomeFailure)
    /\ pc = "done" => status = (IF SomeFailure THEN 1 ELSE 0)
    /\ pc = "done" /\ (\A i \in 1..Len(handed) : handed[i].msg \in {MsgOK, MsgSkipped})
          => status = 0

\* C4 happens: a batch returned 1 although its first file was skipped, a
\* later one failed and the last one succeeded
C4_Witness ==
    /\ pc = "done"
    /\ status = 1
    /\ Len(handed) = 3
    /\ handed[1].msg = MsgSkipped
    /\ FailedNonSkip(handed[2])
    /\ handed[3].ok

\* C5: in a batch over a registered key every enumerated file is handed to
\* the dispatcher exactly once, in enumeration order, one at a time, with
\* exactly one progress line each, whatever the earlier outcomes were; no
\* outcome ends the batch early.
C5_EveryFileOnce ==
    (entry # "none" /\ pc # "usage_error" /\ Lower(opts.to) \in RegistryKeys) =>
        /\ pc \in {"loop", "done"}
        /\ Len(handed) = idx
        /\ Len(printed) = idx
        /\ idx <= Len(listing)
        /\ \A i \in 1..idx :
              /\ handed[i].src = listing[i]
              /\ handed[i].exc = "none"
              /\ printed[i].src = listing[i]
              /\ printed[i].dst = handed[i].dst
              /\ printed[i].msg = handed[i].msg
        /\ pc = "done" => idx = Len(listing)

\* C5 happens: a batch of three files ran to its end although the first
\* file failed and the second was skipped or failed as well
C5_Witness ==
    /\ pc = "done"
    /\ Len(listing) = 3
    /\ Len(printed) = 3
    /\ FailedNonSkip(handed[1])
    /\ ~handed[2].ok
    /\ handed[3].msg = MsgOK

\* C6: a batch invocation whose key is not in the registry is rejected as a
\* whole, up front: it never gets past validation into run_batch's work, so
\* it creates no output directory, converts nothing and returns no status.
C6_UnknownKeyBatchRejected ==
    (entry # "none" /\ pc # "usage_error") => Lower(opts.to) \in RegistryKeys

\* the codec that opened the source, and the codec that wrote the destination
ReadCodec(io) ==
    CASE Has(io, "rasterio.open") /\ ~Has(io, "Image.open") -> "GeoCodec"
      [] Has(io, "Image.open") /\ ~Has(io, "rasterio.open") /\ ~Has(io, "src.read") -> "ImageCodec"
      [] OTHER -> "mixed"

WriteCodec(io) ==
    CASE Has(io, "rasterio.write") /\ ~Has(io, "Image.save") -> "GeoCodec"
      [] Has(io, "Image.save") /\ ~Has(io, "rasterio.write") -> "ImageCodec"
      [] ~Has(io, "Image.save") /\ ~Has(io, "rasterio.write") -> "none"
      [] OTHER -> "mixed"

SourceIsGeo(c) == Lower(c.src.ext) \in {".tif", ".tiff"}

TargetIsGeo(c) == Lower(c.to) \in {"tif", "tiff", "geotiff", "gtiff"}

\* C7: the path of a conversion is decided by the kind of the source (geo
\* iff its lower-cased extension is .tif or .tiff) and the kind of the target
\* (geo iff its key is tif, tiff, geotiff or gtiff) alone: the source is read
\* by the codec of its kind only, the destination is written by the codec of
\* the target's kind only, and a successful conversion did both.
C7_PathByKinds ==
    (last.fn # "none" /\ last.exc = "none" /\ last.msg # MsgSkipped) =>
        /\ ReadCodec(last.io) = (IF SourceIsGeo(last) THEN "GeoCodec" ELSE "ImageCodec")
        /\ WriteCodec(last.io) \in
              {"none", IF TargetIsGeo(last) THEN "GeoCodec" ELSE "ImageCodec"}
        /\ last.ok <=> WriteCodec(last.io) # "none"

\* C7 happens: a generic source went to the plain "tif" key (not a GTiff
\* driver entry) and was written through the geospatial encoder
C7_Witness ==
    /\ last.fn # "none"
    /\ last.ok
    /\ last.to = "tif"
    /\ ~SourceIsGeo(last)
    /\ last.io = <<"dst.exists", "Image.open", "im.opened", "im.load", "mkdir",
                  "dst.opened", "rasterio.write", "dst.closed", "im.closed">>

\* C8: a source whose content cannot be decoded ends, whatever its extension
\* and the target, with exactly (False, "Failed (unrecognized image)").
C8_CorruptIsUnrecognized ==
    (last.fn # "none" /\ last.exc = "none" /\ last.msg # MsgSkipped
        /\ last.src.content = "corrupt") =>
        (~last.ok /\ last.msg = Msg("Failed", "unrecognized image"))

-----------------------------------------------------------------------------
(* The resize scenarios: each applies one of the two resize implementations *)
(* to a raster of some width and height under some max_size (0: none)       *)

InitResize ==
    /\ fs = [p \in {} |-> PreExisting]
    /\ dirs = {}
    /\ ncalls = 0
    /\ last = NoCall
    /\ pc = "idle"
    /\ entry = "none"
    /\ opts = NoOpts
    /\ listing = << >>
    /\ idx = 0
    /\ handed = << >>
    /\ printed = << >>
    /\ any_fail = FALSE
    /\ status = -1
    /\ rz = NoRz
    /\ nz = NoNz
    /\ gw = NoGw
    /\ rt = NoRun

\* resize_pil on a generic image
ResizePil ==
    /\ rz.fn = "none"
    /\ \E w \in 1..MaxDim, h \in 1..MaxDim, max_size \in 0..MaxEdge :
        \E out \in resize_pil(w, h, max_size) :
            rz' = Resized(max_size, "resize_pil", w, h, NoTransform,
                          out[1], out[2], out[3], NoTransform)
    /\ UNCHANGED <<fs, dirs, ncalls, last, batchVars, nz, gw, rt>>

\* the resize branch of save_geotiff_from_raster on a georeferenced raster
ResizeGeo ==
    /\ rz.fn = "none"
    /\ \E w \in 1..MaxDim, h \in 1..MaxDim, max_size \in 0..MaxEdge, t \in Transforms :
        \E out \in GeoResize(w, h, max_size, t) :
            rz' = Resized(max_size, "save_geotiff_from_raster", w, h, t,
                          out[1], out[2], out[3], out[4])
    /\ UNCHANGED <<fs, dirs, ncalls, last, batchVars, nz, gw, rt>>

NextResize ==
    \/ ResizePil
    \/ ResizeGeo

SpecResize == InitResize /\ [][NextResize]_vars

-----------------------------------------------------------------------------
(* Properties of the resize *)

\* C9: for width, height >= 1 and max_size > 0, on both implementations, the
\* longest edge written is at most max_size, and a raster whose longest edge
\* is already at most max_size keeps its dimensions and is not resampled.
C9_LongestEdgeBounded ==
    (rz.fn # "none" /\ rz.max_size > 0) =>
        /\ rz.new_width >= 1
        /\ rz.new_height >= 1
        /\ Longest(rz.new_width, rz.new_height) <= rz.max_size
        /\ Longest(rz.width, rz.height) <= rz.max_size =>
              (rz.new_width = rz.width /\ rz.new_height = rz.height /\ ~rz.resampled)

\* C9 happens: on each implementation a raster was shrunk to max_size on
\* its longest edge while its short edge was clamped to one pixel
C9_Witness ==
    /\ rz.fn = "resize_pil"
    /\ rz.resampled
    /\ rz.max_size > 1
    /\ rz.new_width = rz.max_size
    /\ rz.new_height = 1
    /\ 2 * rz.height * rz.max_size < rz.width

\* the pixel-size term x of the written transform is the source's term x0
\* divided by s = max_size / longest: x * max_size = x0 * longest
DividedByScale(x, x0) ==
    REq(RMul(x, Rat(rz.max_size)), RMul(x0, Rat(Longest(rz.width, rz.height))))

GeoResampled == rz.fn = "save_geotiff_from_raster" /\ rz.resampled

\* C10 as stated: after a geo->geo resize both pixel-size terms of the written
\* transform are the source's divided by s, whatever the dimensions.
C10_BothPixelSizesDividedByScale ==
    GeoResampled =>
        /\ DividedByScale(rz.new_transform[1], rz.transform[1])
        /\ DividedByScale(rz.new_transform[5], rz.transform[5])

\* C10 as amended: the pixel-size term along the longest edge is the source's
\* divided by s; the term along the other edge is the source's divided by s
\* exactly when that edge times s is the whole number of pixels written (no
\* rounding, no clamping), and differs from it otherwise.
C10_PixelSizeAlongLongestEdge ==
    GeoResampled =>
        /\ rz.width >= rz.height => DividedByScale(rz.new_transform[1], rz.transform[1])
        /\ rz.height >= rz.width => DividedByScale(rz.new_transform[5], rz.transform[5])
        /\ DividedByScale(rz.new_transform[1], rz.transform[1])
              <=> rz.width * rz.max_size = rz.new_width * Longest(rz.width, rz.height)
        /\ DividedByScale(rz.new_transform[5], rz.transform[5])
              <=> rz.height * rz.max_size = rz.new_height * Longest(rz.width, rz.height)

\* C10 happens: a wide raster was resized, its height was rounded, and the
\* y pixel size is not the source's divided by s
C10_Witness ==
    /\ GeoResampled
    /\ rz.width > rz.height
    /\ rz.new_height > 1
    /\ rz.height * rz.max_size # rz.new_height * rz.width
    /\ DividedByScale(rz.new_transform[1], rz.transform[1])
    /\ ~DividedByScale(rz.new_transform[5], rz.transform[5])

\* C11: after a geo->geo resize the footprint is preserved exactly on each
\* axis: new width times new x pixel size is the source's width times its x
\* pixel size, and likewise for the height, whatever width, height, max_size.
C11_FootprintPreserved ==
    GeoResampled =>
        /\ REq(RMul(Rat(rz.new_width), rz.new_transform[1]),
               RMul(Rat(rz.width), rz.transform[1]))
        /\ REq(RMul(Rat(rz.new_height), rz.new_transform[5]),
               RMul(Rat(rz.height), rz.transform[5]))

\* C11 happens: a resize whose shorter edge was rounded, so that the two
\* axes were scaled by different factors, and both pixel sizes changed
C11_Witness ==
    /\ GeoResampled
    /\ rz.width * rz.new_height # rz.height * rz.new_width
    /\ ~REq(rz.new_transform[1], rz.transform[1])
    /\ ~REq(rz.new_transform[5], rz.transform[5])

\* C12 as stated: after a geo->geo resize the translation (c, f) and the
\* rotation/shear terms (b, d) of the written transform are the source's,
\* for every source transform, rotated ones included.
C12_TranslationAndRotationInherited ==
    GeoResampled =>
        /\ REq(rz.new_transform[3], rz.transform[3])
        /\ REq(rz.new_transform[6], rz.transform[6])
        /\ REq(rz.new_transform[2], rz.transform[2])
        /\ REq(rz.new_transform[4], rz.transform[4])

\* C12 as amended: the translation (c, f) is the source's; the rotation/shear
\* terms are scaled with their column of the matrix, b by height / new height
\* and d by width / new width, so they are the source's exactly when they are
\* zero or that axis kept its length.
C12_TranslationInheritedRotationScaled ==
    GeoResampled =>
        /\ REq(rz.new_transform[3], rz.transform[3])
        /\ REq(rz.new_transform[6], rz.transform[6])
        /\ REq(RMul(Rat(rz.new_height), rz.new_transform[2]),
               RMul(Rat(rz.height), rz.transform[2]))
        /\ REq(RMul(Rat(rz.new_width), rz.new_transform[4]),
               RMul(Rat(rz.width), rz.transform[4]))
        /\ REq(rz.new_transform[2], rz.transform[2])
              <=> (rz.transform[2][1] = 0 \/ rz.new_height = rz.height)
        /\ REq(rz.new_transform[4], rz.transform[4])
              <=> (rz.transform[4][1] = 0 \/ rz.new_width = rz.width)

\* C12 happens: a rotated raster with an origin away from (0, 0) was resized,
\* the origin was kept and both rotation terms changed
C12_Witness ==
    /\ GeoResampled
    /\ rz.transform[2][1] # 0
    /\ rz.transform[4][1] # 0
    /\ rz.transform[3][1] # 0
    /\ REq(rz.new_transform[3], rz.transform[3])
    /\ ~REq(rz.new_transform[2], rz.transform[2])
    /\ ~REq(rz.new_transform[4], rz.transform[4])

-----------------------------------------------------------------------------
(* The display-buffer scenarios: a dataset read through rasterio is turned *)
(* into an image by rasterio_to_pil and written with save_pil              *)

InitDisplay == InitResize

\* _convert_image on a georeferenced source and a generic target
ToDisplay ==
    /\ nz.dtype = "none"
    /\ \E dtype \in Dtypes, nan_cast \in NaNCasts, env \in Envs :
        \E data \in Datasets(dtype) :
            LET pil == rasterio_to_pil(data, dtype, nan_cast)
                r == Catch(GeoToGeneric(pil, "png", DefaultQuality, env))
            IN  nz' = DisplayRun(r.ok, r.msg, env, dtype, data,
                                 ToUint8(data, dtype, nan_cast), pil)
    /\ UNCHANGED <<fs, dirs, ncalls, last, batchVars, rz, gw, rt>>

NextDisplay == ToDisplay

SpecDisplay == InitDisplay /\ [][NextDisplay]_vars

-----------------------------------------------------------------------------
(* Properties of the display buffer *)

Displayed == nz.dtype # "none"

IsByte(v) == v \in 0..255

\* C13: for every georeferenced source with one or more bands, two and three
\* included, written to a generic target, the display buffer is made of
\* bytes and has 1, 3 or 4 channels: the band for one band, the first four
\* bands for four or more, the first three otherwise; the conversion does not
\* fail because of the band count.
C13_DisplayBandsFromAnyCount ==
    (Displayed /\ nz.env = "ok") =>
        /\ nz.pil.exc = "none"
        /\ nz.ok /\ nz.msg = MsgOK
        /\ Len(nz.pil.channels) \in {1, 3, 4}
        /\ Len(nz.pil.channels) =
              (IF Len(nz.data) = 1 THEN 1 ELSE IF Len(nz.data) >= 4 THEN 4 ELSE 3)
        /\ \A c \in DOMAIN nz.pil.channels :
              /\ nz.pil.channels[c] = nz.shown[c]
              /\ \A i \in DOMAIN nz.shown[c] : IsByte(nz.shown[c][i])

\* round(n / d) for integers n >= 0 and d > 0, halves to the even neighbour
RoundHalfEven(n, d) ==
    LET q == n \div d
        r == n % d
    IN  IF 2 * r < d THEN q
        ELSE IF 2 * r > d THEN q + 1
        ELSE IF q % 2 = 0 THEN q ELSE q + 1

\* the stretch of the claim on one band: minimum and maximum over the finite
\* samples only; all zero without a finite range; otherwise each sample is
\* round(clip((x - min) * 255 / (max - min), 0, 255)).  What a NaN sample
\* becomes is left open.
StretchedAsStated(band, out) ==
    LET fv == FiniteValues(band)
    IN  IF fv = {} \/ SetMax(fv) <= SetMin(fv)
        THEN \A i \in DOMAIN band : out[i] = 0
        ELSE \A i \in DOMAIN band :
                CASE band[i] = NaN    -> TRUE
                  [] band[i] = PosInf -> out[i] = 255
                  [] band[i] = NegInf -> out[i] = 0
                  [] OTHER -> out[i] = Clip255(RoundHalfEven((band[i][2] - SetMin(fv)) * 255,
                                                             SetMax(fv) - SetMin(fv)))

\* C14: on a dataset that is not 8-bit, each band of the display buffer is the
\* stretch of that band alone: minimum and maximum over its finite samples
\* (NaN and +-inf ignored), all zero without a finite range, otherwise the
\* samples stretched to 0..255 and rounded to nearest.
C14_StretchAsStated ==
    (Displayed /\ nz.dtype # "uint8") =>
        \A b \in DOMAIN nz.data : StretchedAsStated(nz.data[b], nz.shown[b])

-----------------------------------------------------------------------------
(* The rasterio-write scenarios: one conversion to the "geotiff" target,   *)
(* from a georeferenced source and from a generic image                    *)

InitGeo == InitResize

\* _convert_image on a georeferenced source and a rasterio-written target:
\* save_geotiff_from_raster
WriteFromRaster ==
    /\ gw.fn = "none"
    /\ \E source \in SourceProfiles, compress \in Compressions, max_size \in 0..MaxSide,
          env \in Faults, fault \in 0..(MaxBands + 1) :
        /\ fault # 0 <=> env = "tag_error"
        /\ fault <= source.count + 1
        /\ \E out \in GeoResize(source.width, source.height, max_size, source.transform) :
            LET r == _convert_image(AGeoSource, AGeoDst, "geotiff", compress, max_size,
                                    DefaultQuality, env)
            IN  gw' = GeoRun("save_geotiff_from_raster", compress, max_size, env, fault,
                             source, r.ok, r.msg, r.io,
                             IF Has(r.io, "dst.opened")
                             THEN WrittenProfile(source, "GTiff", compress, out)
                             ELSE NoProfile,
                             IF Has(r.io, "update_tags")
                             THEN TagSetsCopied(source.count, fault)
                             ELSE 0)
    /\ UNCHANGED <<fs, dirs, ncalls, last, batchVars, rz, nz, rt>>

\* _convert_image on a generic image and a rasterio-written target:
\* save_geotiff_from_pil
WriteFromPil ==
    /\ gw.fn = "none"
    /\ \E mode \in {"L", "RGB", "RGBA"}, width \in 1..MaxSide, height \in 1..MaxSide,
          compress \in Compressions, max_size \in 0..MaxSide, env \in Faults :
        \E out \in resize_pil(width, height, max_size) :
            LET r == _convert_image(AnImageSource, AGeoDst, "geotiff", compress, max_size,
                                    DefaultQuality, env)
            IN  gw' = GeoRun("save_geotiff_from_pil", compress, max_size, env, 0,
                             Profile("none", "uint8", BandsOfMode(mode), width, height,
                                     "absent", NoTransform, "absent"),
                             r.ok, r.msg, r.io,
                             IF Has(r.io, "dst.opened")
                             THEN PilProfile("GTiff", compress, BandsOfMode(mode),
                                             out[2], out[1])
                             ELSE NoProfile,
                             0)
    /\ UNCHANGED <<fs, dirs, ncalls, last, batchVars, rz, nz, rt>>

NextGeo ==
    \/ WriteFromRaster
    \/ WriteFromPil

SpecGeo == InitGeo /\ [][NextGeo]_vars

-----------------------------------------------------------------------------
(* Properties of the rasterio write paths *)

FromRaster == gw.fn = "save_geotiff_from_raster"

\* no resize was asked for, or none was needed
NoResize ==
    gw.max_size = 0 \/ Longest(gw.source.width, gw.source.height) <= gw.max_size

\* nothing went wrong while reading the source or opening the destination
ReadAndOpened == gw.env \notin {"read_error", "write_error"}

\* C15: a geo->geo conversion with no resize (max_size absent, or the longest
\* edge at most max_size) writes a dataset with the source's transform, CRS,
\* band count, dtype, width and height, and its outcome is "OK".
C15_NoResizeKeepsProfile ==
    (FromRaster /\ NoResize /\ ReadAndOpened) =>
        /\ gw.ok /\ gw.msg = MsgOK
        /\ Has(gw.io, "rasterio.write")
        /\ gw.written.transform = gw.source.transform
        /\ gw.written.crs = gw.source.crs
        /\ gw.written.count = gw.source.count
        /\ gw.written.dtype = gw.source.dtype
        /\ gw.written.width = gw.source.width
        /\ gw.written.height = gw.source.height

\* C15 happens: a rotated float32 raster with a CRS and several bands, whose
\* longest edge is exactly max_size, was written
C15_Witness ==
    /\ FromRaster
    /\ gw.ok
    /\ gw.max_size > 0
    /\ Longest(gw.source.width, gw.source.height) = gw.max_size
    /\ gw.source.dtype = "float32"
    /\ gw.source.crs = "EPSG:4326"
    /\ gw.source.count > 1
    /\ gw.source.transform[2] # Rat(0)
    /\ gw.written.transform = gw.source.transform

\* C18: on both rasterio write paths, an empty compression string puts no
\* compression directive in the profile (its compression entry stays what it
\* was before the compression step), and a non-empty one makes the entry the
\* method named.
C18_EmptyCompressionSendsNothing ==
    (gw.fn # "none" /\ Has(gw.io, "dst.opened")) =>
        IF gw.compress = ""
        THEN gw.written.compress = gw.source.compress
        ELSE gw.written.compress = gw.compress

\* C20: on the geo->geo path a failure of the tag copy, at the dataset's tags
\* or at any band's, never changes the outcome: the pixel data and the
\* profile are written, the destination is closed and the outcome is "OK".
C20_TagFailureKeepsOutcome ==
    (FromRaster /\ gw.env = "tag_error") =>
        /\ gw.ok /\ gw.msg = MsgOK
        /\ Has(gw.io, "rasterio.write")
        /\ gw.written # NoProfile
        /\ \E i \in DOMAIN gw.io : gw.io[i] = "dst.closed" /\
              \E j \in 1..(i - 1) : gw.io[j] = "update_tags"
        /\ gw.copied = gw.fault - 1

\* C20 happens: the copy failed at the tags of the second band, after the
\* dataset's tags and the first band's were copied
C20_Witness ==
    /\ FromRaster
    /\ gw.env = "tag_error"
    /\ gw.fault = 3
    /\ gw.copied = 2
    /\ gw.ok

-----------------------------------------------------------------------------
(* File handles *)

\* the handles a conversion opens: the source dataset, the source image, the
\* destination dataset, each with the operations that open and close it
Handles ==
    {<<"src.opened", "src.closed">>, <<"im.opened", "im.closed">>,
     <<"dst.opened", "dst.closed">>}

Times(io, op) == Cardinality({i \in DOMAIN io : io[i] = op})

\* the handles a call that performed io left open
LeftOpen(io) == {h \in Handles : Times(io, h[1]) # Times(io, h[2])}

\* C19: when run_batch starts on the next file, every handle opened for the
\* files before it is closed, whatever way their conversions ended: OK, or
\* Failed while decoding, writing or copying the tags; the same holds when a
\* direct call returns.
C19_HandlesClosed ==
    /\ last.fn # "none" => LeftOpen(last.io) = {}
    /\ \A k \in DOMAIN handed : LeftOpen(handed[k].io) = {}

\* C19 happens: a batch is past its third file; its first conversion failed
\* while the open source dataset was read, its third failed at opening the
\* destination while the source image was open
C19_Witness ==
    /\ pc = "loop"
    /\ Len(handed) >= 3
    /\ handed[1].env = "read_error" /\ ~handed[1].ok /\ Has(handed[1].io, "src.opened")
    /\ handed[3].env = "write_error" /\ ~handed[3].ok /\ Has(handed[3].io, "im.opened")

-----------------------------------------------------------------------------
(* run_tool of the plugins (GeoEngineClient.run_tool of the ArcGIS client,  *)
(* GeoEngineCLIClient.run_tool of the QGIS provider: the same code) and the *)
(* tool subprocess it starts.  The subprocess writes lines to its stderr    *)
(* pipe and chunks to its stdout pipe, in any order, blocks on a full pipe  *)
(* and exits when its writes are accepted; run_tool reads the stderr pipe   *)
(* line by line, then waits, then reads the stdout pipe.                    *)

InitRunTool == InitResize

\* the exit codes of a subprocess left alone, and what a signal makes of it
ExitCodes == {0, 1}

SIGTERM == 15

SIGKILL == 9

\* subprocess.Popen(cmd, stdout=PIPE, stderr=PIPE, text=True)
Popen ==
    /\ rt.at = "idle"
    /\ \E plan_err \in 0..MaxLines, plan_out \in 0..MaxChunks,
          kind \in {"empty", "json", "garbage"}, code \in ExitCodes, stubborn \in BOOLEAN :
        /\ kind = "empty" <=> plan_out = 0
        /\ rt' = RunTool("reading", "running", plan_err, plan_out, kind, code, stubborn,
                         0, 0, FALSE, FALSE, FALSE, FALSE, 0, "none", FALSE)
    /\ UNCHANGED <<fs, dirs, ncalls, last, batchVars, rz, nz, gw>>

\* the subprocess writes a line to stderr
ChildWritesErr ==
    /\ rt.child = "running"
    /\ rt.plan_err > 0
    /\ rt.err < PipeCap
    /\ rt' = [rt EXCEPT !.plan_err = @ - 1, !.err = @ + 1]
    /\ UNCHANGED <<fs, dirs, ncalls, last, batchVars, rz, nz, gw>>

\* the subprocess writes a chunk to stdout
ChildWritesOut ==
    /\ rt.child = "running"
    /\ rt.plan_out > 0
    /\ rt.out < PipeCap
    /\ rt' = [rt EXCEPT !.plan_out = @ - 1, !.out = @ + 1]
    /\ UNCHANGED <<fs, dirs, ncalls, last, batchVars, rz, nz, gw>>

\* the subprocess has written all it had to and exits
ChildExits ==
    /\ rt.child = "running"
    /\ rt.plan_err = 0
    /\ rt.plan_out = 0
    /\ rt' = [rt EXCEPT !.child = "exited", !.rc = rt.code]
    /\ UNCHANGED <<fs, dirs, ncalls, last, batchVars, rz, nz, gw>>

\* the subprocess dies of the SIGTERM run_tool sent it
ChildTerminated ==
    /\ rt.child = "running"
    /\ rt.term
    /\ ~rt.stubborn
    /\ rt' = [rt EXCEPT !.child = "exited", !.rc = -SIGTERM]
    /\ UNCHANGED <<fs, dirs, ncalls, last, batchVars, rz, nz, gw>>

\* the user asks for cancellation: is_cancelled() is true from now on
UserCancels ==
    /\ rt.at \notin {"idle", "done"}
    /\ ~rt.cancel
    /\ rt' = [rt EXCEPT !.cancel = TRUE, !.cancel_live = (rt.child = "running")]
    /\ UNCHANGED <<fs, dirs, ncalls, last, batchVars, rz, nz, gw>>

\* one iteration of the loop over process.stderr.readline: a line is read and
\* passed to on_output, then is_cancelled() is asked; when it is true the
\* subprocess is sent SIGTERM and run_tool waits for it, 5 seconds at most
ReadsLine ==
    /\ rt.at = "reading"
    /\ rt.err > 0
    /\ rt' = IF rt.cancel
             THEN [rt EXCEPT !.err = @ - 1, !.at = "terminating", !.term = TRUE]
             ELSE [rt EXCEPT !.err = @ - 1]
    /\ UNCHANGED <<fs, dirs, ncalls, last, batchVars, rz, nz, gw>>

\* readline returns '' (the pipe is empty and the subprocess, its only
\* writer, has exited): the loop ends, is_cancelled() is not asked
ReadsEOF ==
    /\ rt.at = "reading"
    /\ rt.err = 0
    /\ rt.child = "exited"
    /\ rt' = [rt EXCEPT !.at = "waiting"]
    /\ UNCHANGED <<fs, dirs, ncalls, last, batchVars, rz, nz, gw>>

\* process.wait(timeout=5) returns: the subprocess has exited; run_tool
\* raises, the finally clause closes the pipes
TerminateWaitReturns ==
    /\ rt.at = "terminating"
    /\ rt.child = "exited"
    /\ rt' = [rt EXCEPT !.at = "done", !.result = "Job cancelled by user",
                        !.closed = TRUE]
    /\ UNCHANGED <<fs, dirs, ncalls, last, batchVars, rz, nz, gw>>

\* process.wait(timeout=5) raises TimeoutExpired: process.kill()
TerminateWaitTimesOut ==
    /\ rt.at = "terminating"
    /\ rt.child = "running"
    /\ rt' = [rt EXCEPT !.at = "killing", !.kill = TRUE]
    /\ UNCHANGED <<fs, dirs, ncalls, last, batchVars, rz, nz, gw>>

\* the subprocess dies of SIGKILL, process.wait() returns; run_tool raises,
\* the finally clause closes the pipes
KillWaitReturns ==
    /\ rt.at = "killing"
    /\ rt' = [rt EXCEPT !.at = "done", !.child = "exited",
                        !.rc = IF rt.child = "running" THEN -SIGKILL ELSE rt.rc,
                        !.result = "Job cancelled by user", !.closed = TRUE]
    /\ UNCHANGED <<fs, dirs, ncalls, last, batchVars, rz, nz, gw>>

\* process.wait() after the loop
WaitReturns ==
    /\ rt.at = "waiting"
    /\ rt.child = "exited"
    /\ rt' = [rt EXCEPT !.at = "stdout"]
    /\ UNCHANGED <<fs, dirs, ncalls, last, batchVars, rz, nz, gw>>

\* what run_tool hands back for a return code and the stdout it read: the
\* parsed JSON, the default result, or an exception
Result(rc, kind) ==
    IF rc = 0 /\ kind # "empty"
    THEN IF kind = "json" THEN "json" ELSE "JSONDecodeError"
    ELSE IF rc # 0
         THEN IF kind = "json" THEN "json" ELSE "Tool exited with code"
         ELSE "default"

\* stdout_data = process.stdout.read() and the decision on it; the finally
\* clause closes the pipes
ReadsStdout ==
    /\ rt.at = "stdout"
    /\ rt' = [rt EXCEPT !.at = "done", !.out = 0, !.result = Result(rt.rc, rt.kind),
                        !.closed = TRUE]
    /\ UNCHANGED <<fs, dirs, ncalls, last, batchVars, rz, nz, gw>>

NextRunTool ==
    \/ Popen
    \/ ChildWritesErr
    \/ ChildWritesOut
    \/ ChildExits
    \/ ChildTerminated
    \/ UserCancels
    \/ ReadsLine
    \/ ReadsEOF
    \/ TerminateWaitReturns
    \/ TerminateWaitTimesOut
    \/ KillWaitReturns
    \/ WaitReturns
    \/ ReadsStdout

SpecRunTool == InitRunTool /\ [][NextRunTool]_vars

-----------------------------------------------------------------------------
(* Properties of run_tool *)

Finished == rt.at = "done"

ReturnedResult == rt.result \in {"json", "default"}

\* C16: when is_cancelled() becomes true while the tool subprocess is still
\* running, run_tool terminates the subprocess and raises "Job cancelled by
\* user" instead of returning a result, also when the subprocess writes
\* nothing more to stderr after the request: a finished call that was
\* cancelled while the subprocess ran has raised it, after terminate().
C16_CancelWhileRunningRaises ==
    (Finished /\ rt.cancel_live) =>
        /\ rt.result = "Job cancelled by user"
        /\ rt.term

\* C17: run_tool returns a result only when the return code is 0, the parsed
\* stdout or the default result when stdout is empty; when the subprocess
\* exits with another code it raises, whatever the subprocess wrote to stdout.
C17_NonZeroExitRaises ==
    Finished =>
        /\ ReturnedResult => rt.rc = 0
        /\ (ReturnedResult /\ rt.kind = "empty") => rt.result = "default"
        /\ (ReturnedResult /\ rt.kind # "empty") => rt.result = "json"

\* a step of the subprocess or of run_tool past Popen (a cancellation request
\* is a step of the user)
RunToolStep ==
    \/ ChildWritesErr
    \/ ChildWritesOut
    \/ ChildExits
    \/ ChildTerminated
    \/ ReadsLine
    \/ ReadsEOF
    \/ TerminateWaitReturns
    \/ TerminateWaitTimesOut
    \/ KillWaitReturns
    \/ WaitReturns
    \/ ReadsStdout

\* C22: run_tool never deadlocks against its subprocess: with bounded pipes,
\* whatever the subprocess writes to stdout and stderr and in whatever order,
\* as long as run_tool has not returned or raised either it or the subprocess
\* can take a step; and when it has, both pipes are closed.
C22_NeverDeadlocks ==
    /\ rt.at \notin {"idle", "done"} => ENABLED RunToolStep
    /\ Finished => rt.closed

-----------------------------------------------------------------------------
(* Destinations of a batch that does not overwrite *)

\* the calls of the batch so far that converted to dst
WrittenBy(dst) == {i \in 1..Len(handed) : handed[i].dst = dst /\ handed[i].ok}

\* the batch has just handed a file to convert_one
Handed == Len(handed') = Len(handed) + 1

\* C21: in one run_batch with overwrite=false no step changes a destination
\* file that exists, be it from before the batch or written by an earlier
\* source of the batch: a source whose destination exists ends "Skipped
\* (exists)", and a source that converts is the first and only one to write
\* its destination, also when several sources map to one destination.
C21_NoOverwriteWritesOnce ==
    [][(pc = "loop" /\ ~opts.overwrite) =>
          /\ \A p \in DOMAIN fs : p \in DOMAIN fs' /\ fs'[p] = fs[p]
          /\ Handed =>
                /\ last'.dst \in DOMAIN fs => last'.msg = MsgSkipped
                /\ WrittenBy(last'.dst) # {} => last'.msg = MsgSkipped
                /\ last'.ok => /\ last'.dst \notin DOMAIN fs
                               /\ fs'[last'.dst] = FileBy(SrcPath(last'.src), 1)]_vars

\* C21 happens: a batch that does not overwrite ran to its end over sources
\* that map to one destination; the first to get there wrote it and the
\* later one was skipped
C21_Witness ==
    /\ pc = "done"
    /\ ~opts.overwrite
    /\ \E i, j \in 1..Len(handed) :
          /\ i < j
          /\ handed[i].dst = handed[j].dst
          /\ handed[i].src # handed[j].src
          /\ handed[i].ok
          /\ handed[j].msg = MsgSkipped
          /\ fs[handed[i].dst] = FileBy(SrcPath(handed[i].src), 1)

====
